---- MODULE Spec2Model ----
(***************************************************************************)
(* Model of the marketing-campaign workflow built by create_graph in       *)
(* src/src/agents.py: the node functions, the routing functions, the edge  *)
(* table, and the step loop of the compiled graph with                     *)
(* interrupt_before = [retriever, feedback_processor, publisher].          *)
(*                                                                         *)
(* The workflow state is a record holding the AgentState keys.  A key the  *)
(* program has not written yet holds the value that every read of it in    *)
(* the code substitutes (state.get(key, default)).  A dict is a sequence   *)
(* of <<key, value>> pairs in insertion order, as a Python dict iterates.  *)
(* reasoning_trace is the sequence of the segments appended to the string. *)
(*                                                                         *)
(* Around the workflow: the request handler of src/backend.py, the stages  *)
(* of src/app.py, the competitor check writer_node applies to a            *)
(* completion, and MCPClient and create_doc of src/src/mcp_client.py and   *)
(* src/src/google_utils.py, each with a specification of its own.          *)
(***************************************************************************)
EXTENDS Integers, Sequences, FiniteSets, TLC

\* ---- bounds of the model ----
MaxTrace == 11         \* no node starts once the trace holds this many segments
MaxPlanLen == 2        \* longest plan the planner returns
MaxFeedbackAt == 9     \* feedback is not submitted once the trace holds more segments
MaxCalls == 2          \* publisher is not made to fail once this many calls returned
MaxFailures == 1       \* calls of the graph made to raise in one exploration
MaxWords == 3          \* longest completion given to the competitor check
MaxProcesses == 3      \* server processes started in one exploration
MaxRequests == 4       \* requests written to a server in one exploration

\* ---- values ----
Assets == {"A", "B"}                       \* asset names a plan is made of
GMA == "general marketing assets"          \* retriever's fallback asset name
None == "None"                             \* Python None
END == "__end__"
Goal0 == "goal"                            \* the goal given to invoke
Goal1 == "edited goal"                     \* a goal typed in before a second try
Goals == {Goal0, Goal1}
Rewritten == "rewritten query"             \* completion returned to query_rewriter
\* RouterOutput.intent; "Analytical" is routed exactly as "Factual" is
Intents == {"Factual", "ChitChat", "ClarificationNeeded"}
\* every value state.get("intent") can yield: the Literal's four, or None
IntentValues == Intents \cup {"Analytical", None}
Scores == {"yes", "no"}
Contents == {"text1", "text2"}             \* validated completions of the writer

RECURSIVE SeqsUpTo(_, _)
SeqsUpTo(S, n) ==
    IF n = 0 THEN {<<>>}
    ELSE LET shorter == SeqsUpTo(S, n - 1)
         IN shorter \cup {Append(p, a) : p \in {q \in shorter : Len(q) = n - 1}, a \in S}

\* Plan.steps is any list of asset names: all plans up to MaxPlanLen, and a
\* plan that names one asset three times
RepeatedPlans == {<<"A", "A", "A">>}
Plans == SeqsUpTo(Assets, MaxPlanLen) \cup RepeatedPlans

\* ---- Python dict operations on insertion-ordered dicts ----
Keys(d) == {d[i][1] : i \in 1..Len(d)}
Has(d, k) == \E i \in 1..Len(d) : d[i][1] = k
Get(d, k, default) ==
    IF Has(d, k) THEN d[CHOOSE i \in 1..Len(d) : d[i][1] = k][2] ELSE default
Put(d, k, v) ==
    IF Has(d, k) THEN [i \in 1..Len(d) |-> IF d[i][1] = k THEN <<k, v>> ELSE d[i]]
    ELSE Append(d, <<k, v>>)
Del(d, k) == SelectSeq(d, LAMBDA e : e[1] # k)
KeySeq(d) == [i \in 1..Len(d) |-> d[i][1]]

\* "<text>" in reasoning_trace, for a segment the nodes append
Contains(trace, seg) == \E i \in 1..Len(trace) : trace[i] = seg

\* ---- AgentState ----
EmptyState ==
    [goal |-> None, plan |-> <<>>, drafts |-> <<>>, critique |-> <<>>,
     intent |-> None, retrieved_docs |-> <<>>, retry_count |-> 0,
     reasoning_trace |-> <<>>, current_asset |-> None, errors |-> <<>>,
     publish_results |-> <<>>, user_feedback |-> <<>>, draft_status |-> <<>>,
     feedback_iteration |-> 0]

\* shallow merge of a node's partial update into the running state
Merge(s, u) == [k \in DOMAIN s |-> IF k \in DOMAIN u THEN u[k] ELSE s[k]]

NoUpdate == [k \in {} |-> None]

\* ---- nodes ----
\* the reasoning is the completion of a temperature-0 model for the goal
router_node(s, intent) ==
    [intent |-> intent, reasoning_trace |-> << <<"Router Reasoning", s.goal>> >>]

planner_node(s, steps) ==
    [plan |-> steps,
     reasoning_trace |-> Append(s.reasoning_trace, <<"Planner Reasoning", "">>)]

\* for asset in plan: if asset not in drafts: current_asset = asset; break
FirstMissing(plan, drafts) ==
    IF \E i \in 1..Len(plan) : ~Has(drafts, plan[i])
    THEN plan[CHOOSE i \in 1..Len(plan) :
                 /\ ~Has(drafts, plan[i])
                 /\ \A j \in 1..(i - 1) : Has(drafts, plan[j])]
    ELSE None

\* mutant: the retry count is reset on every retrieval
retriever_node_always_reset(s) ==
    LET found == FirstMissing(s.plan, s.drafts)
        current_asset == IF found = None THEN GMA ELSE found
    IN [retrieved_docs |-> <<current_asset, s.goal>>,
        current_asset |-> current_asset,
        retry_count |-> 0]

retriever_node(s) ==
    LET found == FirstMissing(s.plan, s.drafts)
        current_asset == IF found = None THEN GMA ELSE found
        retry_count == IF s.current_asset # current_asset THEN 0 ELSE s.retry_count
    IN [retrieved_docs |-> <<current_asset, s.goal>>,
        current_asset |-> current_asset,
        retry_count |-> retry_count]

retrieval_grader(s, score) ==
    [reasoning_trace |-> Append(s.reasoning_trace, <<"Retrieval Grade", score>>)]

hallucination_grader(s, score) ==
    [reasoning_trace |-> Append(s.reasoning_trace, <<"Hallucination Grade", score>>)]

writer_node(s, content) ==
    LET found == FirstMissing(s.plan, s.drafts)
        current_asset ==
            IF s.current_asset = None \/ Has(s.drafts, s.current_asset)
            THEN (IF found # None THEN found ELSE s.current_asset)
            ELSE s.current_asset
    IN IF current_asset = None THEN NoUpdate
       ELSE [drafts |-> Put(s.drafts, current_asset, content),
             current_asset |-> current_asset,
             reasoning_trace |->
                 Append(s.reasoning_trace, <<"Writer: Generated", current_asset>>)]

reviewer_node(s) == [critique |-> KeySeq(s.drafts)]

chitchat_node(s) == [critique |-> <<"polite reply">>]

clarification_node(s) == [critique |-> <<"request is ambiguous">>]

query_rewriter_node(s, query) ==
    [goal |-> query, retry_count |-> s.retry_count + 1]

RECURSIVE DelAll(_, _)
DelAll(d, ks) ==
    IF ks = <<>> THEN d ELSE DelAll(Del(d, Head(ks)), Tail(ks))

\* mutant: the processed statuses are cleared along with the removed drafts
feedback_processor_node_clears_status(s) ==
    LET assets_to_revise ==
            KeySeq(SelectSeq(s.draft_status, LAMBDA e : e[2] = "needs_revision"))
    IN IF assets_to_revise # <<>>
       THEN [drafts |-> DelAll(s.drafts, assets_to_revise),
             feedback_iteration |-> s.feedback_iteration + 1,
             current_asset |-> assets_to_revise[1],
             draft_status |-> <<>>]
       ELSE [feedback_iteration |-> s.feedback_iteration]

\* mutant: only the first asset to revise is removed
feedback_processor_node_first_only(s) ==
    LET assets_to_revise ==
            KeySeq(SelectSeq(s.draft_status, LAMBDA e : e[2] = "needs_revision"))
    IN IF assets_to_revise # <<>>
       THEN [drafts |-> Del(s.drafts, assets_to_revise[1]),
             feedback_iteration |-> s.feedback_iteration + 1,
             current_asset |-> assets_to_revise[1]]
       ELSE [feedback_iteration |-> s.feedback_iteration]

\* mutant: the iteration is counted even when nothing needs revision
feedback_processor_node_always_counts(s) ==
    LET assets_to_revise ==
            KeySeq(SelectSeq(s.draft_status, LAMBDA e : e[2] = "needs_revision"))
    IN IF assets_to_revise # <<>>
       THEN [drafts |-> DelAll(s.drafts, assets_to_revise),
             feedback_iteration |-> s.feedback_iteration + 1,
             current_asset |-> assets_to_revise[1]]
       ELSE [feedback_iteration |-> s.feedback_iteration + 1]

feedback_processor_node(s) ==
    LET assets_to_revise ==
            KeySeq(SelectSeq(s.draft_status, LAMBDA e : e[2] = "needs_revision"))
    IN IF assets_to_revise # <<>>
       THEN [drafts |-> DelAll(s.drafts, assets_to_revise),
             feedback_iteration |-> s.feedback_iteration + 1,
             current_asset |-> assets_to_revise[1]]
       ELSE [feedback_iteration |-> s.feedback_iteration]

publisher_node(s) ==
    [publish_results |->
        [i \in 1..Len(s.drafts) |-> <<s.drafts[i][1], "Doc | Scheduled">>]]

\* the calls the loop of publisher_node makes: for each draft, in the order of
\* drafts.items(), create_doc and then add_calendar_event
PublisherCalls(drafts) ==
    [i \in 1..(2 * Len(drafts)) |->
        IF i % 2 = 1 THEN <<"create_doc", drafts[(i + 1) \div 2][1]>>
        ELSE <<"add_calendar_event", drafts[i \div 2][1]>>]

\* ---- routing ----
\* mutant: only ChitChat is told apart; a request to clarify is planned
route_after_router_chitchat_only(s) ==
    IF s.intent = "ChitChat" THEN "chitchat" ELSE "planner"

route_after_router(s) ==
    IF s.intent = "ChitChat" THEN "chitchat"
    ELSE IF s.intent = "ClarificationNeeded" THEN "clarification"
    ELSE "planner"

\* mutant: a retrieval graded "no" is always sent to query_rewriter
route_after_retrieval_grade_unbounded(s) ==
    IF Contains(s.reasoning_trace, <<"Retrieval Grade", "yes">>) THEN "writer"
    ELSE "query_rewriter"

route_after_retrieval_grade(s) ==
    IF Contains(s.reasoning_trace, <<"Retrieval Grade", "yes">>) THEN "writer"
    ELSE IF s.retry_count < 1 THEN "query_rewriter"
    ELSE "writer"

\* mutant: the routing of the variant without the feedback loop, which names
\* reviewer, a node the registered edge mapping does not list
route_after_hallucination_grade_to_reviewer(s) ==
    IF Contains(s.reasoning_trace, <<"Hallucination Grade", "no">>) /\ s.retry_count < 1
    THEN "query_rewriter"
    ELSE IF Len(s.drafts) < Len(s.plan) THEN "retriever"
    ELSE "reviewer"

\* mutant: the completeness test comes before the retry test
route_after_hallucination_grade_length_first(s) ==
    IF Len(s.drafts) < Len(s.plan) THEN "retriever"
    ELSE IF Contains(s.reasoning_trace, <<"Hallucination Grade", "no">>)
            /\ s.retry_count < 1
    THEN "query_rewriter"
    ELSE "feedback_processor"

route_after_hallucination_grade(s) ==
    IF Contains(s.reasoning_trace, <<"Hallucination Grade", "no">>) /\ s.retry_count < 1
    THEN "query_rewriter"
    ELSE IF Len(s.drafts) < Len(s.plan) THEN "retriever"
    ELSE "feedback_processor"

route_after_feedback(s) ==
    IF \E i \in 1..Len(s.draft_status) : s.draft_status[i][2] = "needs_revision"
    THEN "retriever"
    ELSE "reviewer"

\* ---- graph ----
Nodes == {"router", "planner", "retriever", "writer", "retrieval_grader",
          "hallucination_grader", "reviewer", "publisher", "chitchat",
          "clarification", "query_rewriter", "feedback_processor"}

EntryPoint == "router"

\* mutant: the graph of the simplest variant, which pauses before reviewer only
InterruptBeforeReviewer == {"reviewer"}

\* a compilation that interrupts before the publisher only: the drafting
\* cycles no longer pass through an interrupt point
InterruptBeforePublisherOnly == {"publisher"}

InterruptBefore == {"retriever", "feedback_processor", "publisher"}

\* the keys of the mapping passed to add_conditional_edges for node n
RoutingKeys(n) ==
    CASE n = "router" -> {"planner", "chitchat", "clarification"}
      [] n = "retrieval_grader" -> {"query_rewriter", "writer"}
      [] n = "hallucination_grader" -> {"query_rewriter", "retriever", "feedback_processor"}
      [] n = "feedback_processor" -> {"retriever", "reviewer"}

\* the node that follows node n once its update is merged into s
EdgeFrom(n, s) ==
    CASE n = "router" -> route_after_router(s)
      [] n = "planner" -> "retriever"
      [] n = "retriever" -> "retrieval_grader"
      [] n = "retrieval_grader" -> route_after_retrieval_grade(s)
      [] n = "query_rewriter" -> "retriever"
      [] n = "writer" -> "hallucination_grader"
      [] n = "hallucination_grader" -> route_after_hallucination_grade(s)
      [] n = "feedback_processor" -> route_after_feedback(s)
      [] n = "reviewer" -> "publisher"
      [] n = "publisher" -> END
      [] n = "chitchat" -> END
      [] n = "clarification" -> END

\* ---- the competitor check of writer_node ----
\* A completion is a sequence of words; the words that matter are the two
\* competitor names as configured and in another letter case.
Words == {"CompetitorX", "competitorx", "OtherBrand", "OTHERBRAND", "fleet"}
Redacted == "[REDACTED]"
Texts == SeqsUpTo(Words, MaxWords)

\* CompetitorCheck(competitors=["CompetitorX", "OtherBrand"], on_fail="fix")
competitors == <<"CompetitorX", "OtherBrand">>

\* str.lower(), word by word
Lower(w) ==
    CASE w \in {"CompetitorX", "competitorx"} -> "competitorx"
      [] w \in {"OtherBrand", "OTHERBRAND"} -> "otherbrand"
      [] w = Redacted -> "[redacted]"
      [] OTHER -> w
LowerText(text) == [i \in 1..Len(text) |-> Lower(text[i])]

\* sub in value, for a one-word sub
In(sub, value) == \E i \in 1..Len(value) : value[i] = sub

\* value.replace(old, new): exact, case-sensitive matches only
Replace(value, old, new) ==
    [i \in 1..Len(value) |-> IF value[i] = old THEN new ELSE value[i]]

\* CompetitorCheck.validate: the first configured name found ignoring case
\* fails the value, with a fix that replaces that name as configured
validate(value) ==
    LET found == {i \in 1..Len(competitors) :
                     In(Lower(competitors[i]), LowerText(value))}
    IN IF found # {}
       THEN LET competitor == competitors[CHOOSE i \in found : \A j \in found : i <= j]
            IN [outcome |-> "fail",
                fix_value |-> Replace(value, competitor, Redacted)]
       ELSE [outcome |-> "pass", fix_value |-> value]

\* guard.parse(raw_content).validated_output with on_fail="fix": the fix value
\* of a failed validation takes the place of the value
validated_output(raw_content) ==
    LET result == validate(raw_content)
    IN IF result.outcome = "fail" THEN result.fix_value ELSE raw_content

\* no completion under check
GuardIdle == [pc |-> "idle", raw_content |-> <<>>, draft |-> <<>>, note |-> ""]

\* ---- the MCP client and create_doc ----
\* MCPClient.__init__: no process, not running.  process is 0 for None, else
\* the number of the server process; spawned counts the Popen calls that
\* returned, alive holds the server processes that have not been ended,
\* written counts the requests written to a server's stdin, and ret and op
\* are the value returned by the latest method call and its name.
ClientNew ==
    [is_running |-> FALSE, process |-> 0, spawned |-> 0, alive |-> {},
     written |-> 0, ret |-> None, op |-> None]

\* no call of create_doc in progress
CdIdle ==
    [pc |-> "idle", use_mcp |-> FALSE, content |-> "", config |-> None,
     credentials |-> None, popen |-> None, create_file |-> None,
     result |-> None, value |-> None]

VARIABLES
    state,      \* the checkpointed AgentState of the session
    mode,       \* "idle" (no checkpoint), "running", "paused", "terminal",
                \* "failed" (the latest call raised out of a node)
    next,       \* node to run (running), pending node (paused, failed), END (terminal)
    pre,        \* the state the latest node execution started from
    last,       \* the node run by the latest step; None after invoke/resume
    call,       \* the current invoke/resume call: kind, start node, nodes run,
                \* the state graph.invoke found when it was entered (from),
                \* and whether update_state was called just before it
    rewrites,   \* per asset: query_rewriter runs since writer last wrote it
    hist,       \* nodes run since the latest invoke with a payload, with a
                \* "pause" entry wherever a call returned before a node
    revision,   \* per asset: "removed" once feedback_processor has deleted its
                \* draft, "rewritten" once writer has stored it again, "none"
                \* at the start and whenever the caller marks it needs_revision
    calls,      \* the calls of create_doc and add_calendar_event that have
                \* returned in this session, in order, each with its asset
    docs,       \* assets for which create_doc has returned a document
    view,       \* the snapshot the latest get_state returned; NoView after a call
    failures,   \* the calls of the graph that have raised so far
    run_stage,  \* st.session_state.run_stage of the Streamlit app
    after,      \* the stage the running button handler assigns to run_stage
                \* once its graph call has returned; None between handlers
    api,        \* the process serving POST /run_campaign: the place of the
                \* handler, os.environ["GOOGLE_API_KEY"] now and when the
                \* process started, the request being served and the latest
                \* response
    guard,      \* the Guardrails block of writer_node: the completion under
                \* check, the text committed to drafts and the note the
                \* trace segment carries
    client,     \* the MCPClient object and the server processes it started
    cd          \* the call of create_doc in progress: its place, its
                \* arguments, what it found on its way and its return value

vars == <<state, mode, next, pre, last, call, rewrites, hist, revision, calls, docs, view,
          failures, run_stage, after, api, guard, client, cd>>

\* the variables of the code around the front ends
lib == <<guard, client, cd>>

\* the variables the compiled graph never touches
front == <<run_stage, after, api, lib, failures>>

\* the body of a response that carries no campaign
NoResponse ==
    [plan |-> <<>>, drafts |-> <<>>, critique |-> <<>>, reasoning_trace |-> <<>>]

\* no request served yet (status 0: no response sent), no key in the environment
ApiIdle ==
    [pc |-> "idle", env |-> None, start_env |-> None, body_key |-> None,
     header_key |-> None, goal |-> None, status |-> 0, response |-> NoResponse]

AssetNames == Assets \cup {GMA}

\* no snapshot at hand: the script run that held it has ended
NoView == [values |-> EmptyState, next |-> None]

\* a compiled graph with an empty MemorySaver, and nothing published
InitSession ==
    /\ state = EmptyState
    /\ mode = "idle"
    /\ next = EntryPoint
    /\ pre = EmptyState
    /\ last = None
    /\ call = [kind |-> None, at |-> None, ran |-> <<>>, from |-> EmptyState,
              updated |-> FALSE]
    /\ rewrites = [a \in AssetNames |-> 0]
    /\ hist = <<>>
    /\ revision = [a \in AssetNames |-> "none"]
    /\ calls = <<>>
    /\ docs = {}
    /\ view = NoView

Init ==
    /\ InitSession
    /\ run_stage = "entry"
    /\ after = None
    /\ api = ApiIdle
    /\ guard = GuardIdle
    /\ client = ClientNew
    /\ cd = CdIdle
    /\ failures = 0

\* graph.invoke({"goal": goal}, config) on a session without a checkpoint
InvokeCall(goal) ==
    /\ mode = "idle"
    /\ state' = Merge(state, [goal |-> goal])
    /\ mode' = "running"
    /\ next' = EntryPoint
    /\ last' = None
    /\ call' = [kind |-> "invoke", at |-> EntryPoint, ran |-> <<>>, from |-> state,
              updated |-> FALSE]
    /\ UNCHANGED <<pre, rewrites, hist, revision, calls, docs, view>>

Invoke == InvokeCall(Goal0) /\ UNCHANGED front

\* mutant: the call re-enters after the pending node instead of at it
Resume_AfterPending ==
    /\ mode = "paused"
    /\ Len(state.reasoning_trace) < MaxTrace
    /\ EdgeFrom(next, state) # END
    /\ mode' = "running"
    /\ next' = EdgeFrom(next, state)
    /\ last' = None
    /\ call' = [kind |-> "resume", at |-> next, ran |-> <<>>, from |-> state,
              updated |-> FALSE]
    /\ view' = NoView
    /\ UNCHANGED <<state, pre, rewrites, hist, revision, calls, docs>>
    /\ UNCHANGED front

\* graph.invoke(None, config) on a paused session
ResumeCall ==
    /\ mode = "paused"
    /\ Len(state.reasoning_trace) < MaxTrace
    /\ mode' = "running"
    /\ last' = None
    /\ call' = [kind |-> "resume", at |-> next, ran |-> <<>>, from |-> state,
              updated |-> FALSE]
    /\ view' = NoView
    /\ UNCHANGED <<state, next, pre, rewrites, hist, revision, calls, docs>>

Resume == ResumeCall /\ UNCHANGED front

\* graph.invoke(None, config) on a session that has reached END: run_campaign
\* issues it after every first invoke, also one that chitchat or clarification
\* ended.  No node is pending, so the call returns the state as it is.
ResumeTerminalCall ==
    /\ mode = "terminal"
    /\ last' = None
    /\ call' = [kind |-> "resume", at |-> END, ran |-> <<>>, from |-> state,
              updated |-> FALSE]
    /\ view' = NoView
    /\ UNCHANGED <<state, mode, next, pre, rewrites, hist, revision, calls, docs>>

ResumeTerminal == ResumeTerminalCall /\ UNCHANGED front

\* mutant: reading the state drops the pending node
Inspect_TakesPending ==
    /\ mode = "paused"
    /\ Len(state.reasoning_trace) < MaxTrace
    /\ view' = [values |-> state, next |-> next]
    /\ next' = EdgeFrom(next, state)
    /\ UNCHANGED <<state, mode, pre, last, call, rewrites, hist, revision, calls, docs>>
    /\ UNCHANGED front

\* graph.get_state(config) as the stages of the app call it on every rerun
\* while the session waits for a button: the values and the pending node
GetState ==
    /\ mode \in {"paused", "terminal", "failed"}
    /\ Len(state.reasoning_trace) < MaxTrace
    /\ view' = [values |-> state, next |-> next]
    /\ UNCHANGED <<state, mode, next, pre, last, call, rewrites, hist, revision, calls, docs>>

Inspect == GetState /\ UNCHANGED front

\* the orders in which the keys of a dict can have been inserted
Orderings(S) ==
    {p \in [1..Cardinality(S) -> S] : \A i, j \in DOMAIN p : i # j => p[i] # p[j]}

\* st.session_state.draft_statuses once every shown draft is reviewed, from
\* the dict the stage holds (old): a click on a draft of the dict replaces its
\* status in place, a click on another draft appends it, in the order of the
\* clicks, and the entry of a draft that is no longer shown stays as it is
ReviewedStatuses(old, drafts) ==
    {[i \in 1..Len(old) |->
          <<old[i][1], IF Has(drafts, old[i][1]) THEN st[old[i][1]] ELSE old[i][2]>>]
     \o [i \in DOMAIN p |-> <<p[i], st[p[i]]>>] :
        p \in Orderings(Keys(drafts) \ Keys(old)),
        st \in [Keys(drafts) -> {"approved", "needs_revision"}]}

\* what the text area of a draft can hold when Submit is clicked: the text is
\* tested only at the click on "Request Revision", and can be typed for a
\* draft that is then approved or cleared after the revision was requested
FeedbackTexts == {"", "feedback"}

\* st.session_state.draft_feedback, from the dict the stage holds (old): every
\* script run stores the text of the text area of every shown draft, in the
\* order the drafts are shown, and the entry of a draft that is no longer
\* shown stays as it is
FeedbackFor(old, drafts, texts) ==
    LET shown == SelectSeq(KeySeq(drafts), LAMBDA k : ~Has(old, k))
    IN [i \in 1..Len(old) |->
           <<old[i][1], IF Has(drafts, old[i][1]) THEN texts[old[i][1]] ELSE old[i][2]>>]
       \o [i \in 1..Len(shown) |-> <<shown[i], texts[shown[i]]>>]

\* the node that ran last in the session
LastNode(h) ==
    LET ran == {i \in 1..Len(h) : h[i] # "pause"}
    IN IF ran = {} THEN None ELSE h[CHOOSE i \in ran : \A j \in ran : j <= i]

\* st.session_state.draft_statuses and draft_feedback when the feedback stage
\* is drawn: empty when the stage is entered and after a Submit whose resume
\* returned with a revision, and the dicts update_state wrote after a Submit
\* whose resume raised (the reset is skipped and no node writes the two fields)
draft_statuses == IF mode = "failed" THEN state.draft_status ELSE <<>>
draft_feedback == IF mode = "failed" THEN state.user_feedback ELSE <<>>

\* graph.update_state(config, {user_feedback, draft_status}) followed by
\* graph.invoke(None, config), as "Submit Feedback & Continue" issues them.
\* The drafts shown for review are those of the snapshot the script run has
\* just read.  update_state is called without as_node: the compiled graph
\* writes the values as an update of the node that ran last and follows that
\* node's edge again on the updated state, which becomes the pending node the
\* resume enters at; a session at END stays there and the resume runs nothing.
\* The handler does not look at the session first: it does the same on one
\* whose latest call raised, where the node that ran last is the last one
\* that returned.  MaxFeedbackAt cuts the exploration off: every choice of
\* statuses and texts is drawn up to that length of the trace, none beyond.
UpdateStateAndResume ==
    /\ mode \in {"paused", "terminal", "failed"}
    /\ Len(state.reasoning_trace) < MaxTrace
    /\ Len(state.reasoning_trace) <= MaxFeedbackAt
    /\ view # NoView
    /\ \E statuses \in ReviewedStatuses(draft_statuses, view.values.drafts),
          texts \in [Keys(view.values.drafts) -> FeedbackTexts] :
          state' = Merge(state, [user_feedback |->
                                     FeedbackFor(draft_feedback, view.values.drafts,
                                                 texts),
                                 draft_status |-> statuses])
    /\ next' = EdgeFrom(LastNode(hist), state')
    /\ mode' = IF next' = END THEN "terminal" ELSE "running"
    /\ last' = None
    /\ call' = [kind |-> "resume", at |-> next', ran |-> <<>>, from |-> state',
              updated |-> TRUE]
    /\ revision' = [a \in AssetNames |->
                        IF Get(state'.draft_status, a, "pending") = "needs_revision"
                        THEN "none" ELSE revision[a]]
    /\ view' = NoView
    /\ UNCHANGED <<pre, rewrites, hist, calls, docs>>

\* "Submit Feedback & Continue" clicked.  The handler tests only that every
\* shown draft is reviewed; the sessions it can meet are those the stages lead
\* to.  The stage that shows the button is entered after the plan was approved
\* and that resume returned, and is left once a submission holds no
\* needs_revision: the session is then paused before retriever or
\* feedback_processor with drafting begun, or it is at END because chitchat or
\* clarification ended the first invoke, no draft is shown, and the click
\* writes two empty dicts and resumes a session in which nothing is pending.
SubmitFeedback ==
    /\ \/ /\ mode = "paused"
          /\ next \in {"retriever", "feedback_processor"}
          /\ state.current_asset # None
       \/ /\ mode = "terminal"
          /\ LastNode(hist) \in {"chitchat", "clarification"}
    /\ UpdateStateAndResume
    /\ UNCHANGED front

\* one turn of the step loop of the compiled graph: run node n, merge its
\* update, follow its edge, pause if the target is listed in interrupt_before,
\* stop at END.  MaxTrace cuts the exploration off, not the program: no node
\* starts, and no call is issued, once the trace holds MaxTrace segments.
Step(n, update) ==
    /\ mode = "running"
    /\ next = n
    /\ Len(state.reasoning_trace) < MaxTrace
    /\ LET merged == Merge(state, update)
           target == EdgeFrom(n, merged)
       IN /\ state' = merged
          /\ next' = target
          /\ mode' = IF target = END THEN "terminal"
                     ELSE IF target \in InterruptBefore THEN "paused"
                     ELSE "running"
          /\ hist' = IF target \in InterruptBefore
                     THEN hist \o <<n, "pause">> ELSE Append(hist, n)
    /\ pre' = state
    /\ last' = n
    /\ call' = [call EXCEPT !.ran = Append(@, n)]
    /\ rewrites' =
          IF n = "query_rewriter" /\ state.current_asset \in AssetNames
          THEN [rewrites EXCEPT ![state.current_asset] = @ + 1]
          ELSE IF n = "writer" /\ "drafts" \in DOMAIN update
          THEN [rewrites EXCEPT ![update.current_asset] = 0]
          ELSE rewrites
    /\ revision' =
          IF n = "feedback_processor"
          THEN [a \in AssetNames |->
                   IF Has(state.drafts, a) /\ ~Has(state'.drafts, a)
                   THEN "removed" ELSE revision[a]]
          ELSE IF n = "writer" /\ "drafts" \in DOMAIN update
                  /\ revision[update.current_asset] = "removed"
          THEN [revision EXCEPT ![update.current_asset] = "rewritten"]
          ELSE revision
    /\ calls' = IF n = "publisher" THEN calls \o PublisherCalls(state.drafts)
                ELSE calls
    /\ docs' = IF n = "publisher" THEN docs \cup Keys(state.drafts) ELSE docs
    /\ UNCHANGED view
    /\ UNCHANGED front

Router == \E intent \in Intents : Step("router", router_node(state, intent))
Planner == \E steps \in Plans : Step("planner", planner_node(state, steps))
Retriever == Step("retriever", retriever_node(state))
RetrievalGrader == \E score \in Scores : Step("retrieval_grader", retrieval_grader(state, score))
QueryRewriter == Step("query_rewriter", query_rewriter_node(state, Rewritten))
\* The program never looks into a draft, so which completion fills an asset
\* that has no draft makes no difference: it is the first of Contents.  One
\* that replaces a draft may equal it or differ from it.
Writer ==
    \E content \in Contents :
        LET update == writer_node(state, content)
        IN /\ ("current_asset" \in DOMAIN update
                /\ ~Has(state.drafts, update.current_asset)) => content = "text1"
           /\ Step("writer", update)
HallucinationGrader ==
    \E score \in Scores : Step("hallucination_grader", hallucination_grader(state, score))
FeedbackProcessor == Step("feedback_processor", feedback_processor_node(state))
Reviewer == Step("reviewer", reviewer_node(state))
Publisher == Step("publisher", publisher_node(state))
ChitChat == Step("chitchat", chitchat_node(state))
Clarification == Step("clarification", clarification_node(state))

Next ==
    \/ Invoke
    \/ Resume
    \/ ResumeTerminal
    \/ Inspect
    \/ SubmitFeedback
    \/ Router
    \/ Planner
    \/ Retriever
    \/ RetrievalGrader
    \/ QueryRewriter
    \/ Writer
    \/ HallucinationGrader
    \/ FeedbackProcessor
    \/ Reviewer
    \/ Publisher
    \/ ChitChat
    \/ Clarification

Spec == Init /\ [][Next]_vars

\* ---- calls that raise ----

\* A node other than publisher raises (a completion, the vector store or the
\* structured-output parser fails).  No node catches it and create_graph
\* installs no handler, so the exception leaves invoke; the update of the node
\* is never merged and the checkpoint stays the one the node started from.
\* MaxFailures cuts the exploration off: no further call is made to raise once
\* MaxFailures calls have raised.
NodeFails ==
    /\ mode = "running"
    /\ next \in Nodes \ {"publisher"}
    /\ Len(state.reasoning_trace) < MaxTrace
    /\ failures < MaxFailures
    /\ mode' = "failed"
    /\ failures' = failures + 1
    /\ UNCHANGED <<state, next, pre, last, call, rewrites, hist, revision, calls, docs, view>>
    /\ UNCHANGED <<run_stage, after, api, lib>>

\* publisher_node loops over drafts.items() and calls create_doc and
\* add_calendar_event for each without a try: when the n-th call of the loop
\* raises, the calls before it have returned and their documents and events
\* exist, the results dict built so far is dropped with the frame, and the
\* node raises.  MaxCalls cuts the exploration off: no further failure is
\* drawn once MaxCalls calls have returned.
PublishFails ==
    /\ mode = "running"
    /\ next = "publisher"
    /\ Len(calls) < MaxCalls
    /\ failures < MaxFailures
    /\ \E n \in 1..(2 * Len(state.drafts)) :
          LET returned == SubSeq(PublisherCalls(state.drafts), 1, n - 1)
          IN /\ calls' = calls \o returned
             /\ docs' = docs \cup {returned[i][2] : i \in {j \in 1..(n - 1) : j % 2 = 1}}
    /\ mode' = "failed"
    /\ failures' = failures + 1
    /\ UNCHANGED <<state, next, pre, last, call, rewrites, hist, revision, view>>
    /\ UNCHANGED <<run_stage, after, api, lib>>

\* the button of the plan or the publish stage clicked again after its
\* graph.invoke(None, config) raised: run_stage was not advanced
ResumeFailed ==
    /\ mode = "failed"
    /\ Len(state.reasoning_trace) < MaxTrace
    /\ call.kind = "resume"
    /\ ~call.updated
    /\ mode' = "running"
    /\ last' = None
    /\ call' = [kind |-> "resume", at |-> next, ran |-> <<>>, from |-> state,
              updated |-> FALSE]
    /\ view' = NoView
    /\ UNCHANGED <<state, next, pre, rewrites, hist, revision, calls, docs>>
    /\ UNCHANGED front

\* "Start Campaign" clicked again after graph.invoke({"goal": goal}, config)
\* raised: run_stage is still "entry" and the session holds the checkpoint of
\* the failed call.  An invoke with a payload writes the payload into the
\* state and enters the graph at its entry point.
ReInvoke ==
    /\ mode = "failed"
    /\ call.kind = "invoke"
    /\ \E goal \in Goals : state' = Merge(state, [goal |-> goal])
    /\ mode' = "running"
    /\ next' = EntryPoint
    /\ last' = None
    /\ call' = [kind |-> "invoke", at |-> EntryPoint, ran |-> <<>>, from |-> state,
              updated |-> FALSE]
    /\ hist' = <<>>
    /\ view' = NoView
    /\ UNCHANGED <<pre, rewrites, revision, calls, docs>>
    /\ UNCHANGED front

\* "Submit Feedback & Continue" clicked again after the resume it issued
\* raised: run_stage is still "feedback_collection" and the statuses are kept,
\* a rerun reads the state, and the click calls update_state and
\* graph.invoke(None, config) once more
SubmitFeedbackAgain ==
    /\ mode = "failed"
    /\ call.kind = "resume"
    /\ call.updated
    /\ UpdateStateAndResume
    /\ UNCHANGED front

NextF ==
    \/ Next
    \/ NodeFails
    \/ PublishFails
    \/ ResumeFailed
    \/ SubmitFeedbackAgain
    \/ ReInvoke

SpecF == Init /\ [][NextF]_vars

\* ---- properties ----

Ran(n) == last = n
NeedsRevision(statuses) ==
    \E i \in 1..Len(statuses) : statuses[i][2] = "needs_revision"
Occurrences(seq, x) == Cardinality({i \in 1..Len(seq) : seq[i] = x})
ElemsOf(seq) == {seq[i] : i \in 1..Len(seq)}

\* C1: with interrupt points {retriever, feedback_processor, publisher}, a call
\* returns to the caller only with one of these nodes pending or at END, a
\* routed-to interrupt point is never run in the call that routed to it, and so
\* every execution of such a node is the first node of a resume call.
C1_PauseBeforeInterruptPoints ==
    LET points == {"retriever", "feedback_processor", "publisher"} IN
    /\ mode = "paused" => next \in points
    /\ mode = "terminal" => next = END
    /\ (mode = "running" /\ next \in points) =>
           (call.kind = "resume" /\ call.ran = <<>>)
    /\ \A i \in 1..Len(call.ran) :
           call.ran[i] \in points => (i = 1 /\ call.kind = "resume")

\* C1 witness: routing led back to retriever inside a resume call that started
\* at retriever, and the call returned with retriever pending.
C1_Witness ==
    /\ mode = "paused" /\ next = "retriever"
    /\ call.kind = "resume" /\ call.at = "retriever"
    /\ Len(call.ran) >= 3

\* C2: one resume call of a session paused before node N executes N exactly
\* once: N is the first node the call runs, a call that has returned has run
\* it, and N is not run a second time in that call.
C2_ResumeRunsPendingOnce ==
    (call.kind = "resume" /\ call.at \in Nodes) =>
        /\ mode \in {"paused", "terminal"} => call.ran # <<>>
        /\ call.ran # <<>> =>
               (call.ran[1] = call.at /\ Occurrences(call.ran, call.at) = 1)

\* C2 witness: a resume call that started at retriever was routed back to
\* retriever by hallucination_grader and paused instead of running it again.
C2_Witness ==
    /\ call.kind = "resume" /\ call.at = "retriever"
    /\ mode = "paused" /\ next = "retriever"
    /\ last = "hallucination_grader"

\* C3: while every retrieval grade so far is "no", query_rewriter has run at
\* most once for any asset since writer last wrote that asset.
C3_RewriteAtMostOncePerAsset ==
    ~Contains(state.reasoning_trace, <<"Retrieval Grade", "yes">>) =>
        \A a \in AssetNames : rewrites[a] <= 1

\* C3 witness: every grade was "no", the asset was graded twice and rewritten
\* once, and writer has then been forced to write it.
C3_Witness ==
    /\ ~Contains(state.reasoning_trace, <<"Retrieval Grade", "yes">>)
    /\ Occurrences(state.reasoning_trace, <<"Retrieval Grade", "no">>) >= 2
    /\ Ran("writer")
    /\ state.retry_count = 1

\* C4 (as claimed): after retrieval_grader the next node is decided by the grade
\* that execution just appended: writer on "yes", else query_rewriter while
\* retry_count < 1, else writer.
C4_LatestGradeDecides ==
    Ran("retrieval_grader") =>
        next = IF state.reasoning_trace[Len(state.reasoning_trace)]
                     = <<"Retrieval Grade", "yes">>
               THEN "writer"
               ELSE IF state.retry_count < 1 THEN "query_rewriter"
               ELSE "writer"

\* C5: after hallucination_grader the next node is query_rewriter if the trace
\* contains "Hallucination Grade: no" and retry_count < 1, otherwise retriever
\* if len(drafts) < len(plan), otherwise feedback_processor.
C5_RouteAfterHallucinationGrade ==
    Ran("hallucination_grader") =>
        next = IF Contains(state.reasoning_trace, <<"Hallucination Grade", "no">>)
                  /\ state.retry_count < 1
               THEN "query_rewriter"
               ELSE IF Len(state.drafts) < Len(state.plan) THEN "retriever"
               ELSE "feedback_processor"

\* C5 witness: the first branch matched although drafts were still missing, so
\* the order of the branches decided the route.
C5_Witness ==
    /\ Ran("hallucination_grader")
    /\ next = "query_rewriter"
    /\ Len(state.drafts) < Len(state.plan)

\* C6: when feedback_processor runs with some draft_status needs_revision,
\* exactly the drafts marked needs_revision are removed, the others are kept
\* with their content, feedback_iteration grows by 1 and retriever is next.
C6_FeedbackRemovesRevised ==
    (Ran("feedback_processor") /\ NeedsRevision(pre.draft_status)) =>
        /\ state.drafts =
               SelectSeq(pre.drafts,
                         LAMBDA e : Get(pre.draft_status, e[1], "pending")
                                       # "needs_revision")
        /\ state.feedback_iteration = pre.feedback_iteration + 1
        /\ next = "retriever"
        /\ mode = "paused"

\* C6 witness: feedback_processor removed one draft and kept another.
C6_Witness ==
    /\ Ran("feedback_processor")
    /\ Len(pre.drafts) = Len(state.drafts) + 1
    /\ state.drafts # <<>>

\* C7: when feedback_processor runs with no draft_status needs_revision,
\* drafts, current_asset and feedback_iteration are unchanged and reviewer is
\* next.
C7_FeedbackWithoutRevision ==
    (Ran("feedback_processor") /\ ~NeedsRevision(pre.draft_status)) =>
        /\ state.drafts = pre.drafts
        /\ state.current_asset = pre.current_asset
        /\ state.feedback_iteration = pre.feedback_iteration
        /\ next = "reviewer"

\* C7 witness: feedback_processor ran on approved drafts, and on an earlier
\* round had counted an iteration.
C7_Witness ==
    /\ Ran("feedback_processor")
    /\ pre.draft_status # <<>>
    /\ ~NeedsRevision(pre.draft_status)
    /\ pre.feedback_iteration = 1

\* C8 (as claimed): whenever the session is paused before feedback_processor,
\* the keys of drafts are exactly the entries of plan.
C8_DraftsExactlyPlan ==
    (mode = "paused" /\ next = "feedback_processor") =>
        Keys(state.drafts) = ElemsOf(state.plan)

\* C9 (as claimed): in every reachable state every key of drafts is an entry
\* of plan.
C9_DraftKeysInPlan == Keys(state.drafts) \subseteq ElemsOf(state.plan)

\* C10 (as claimed): after every execution of retriever, writer or
\* feedback_processor that changes current_asset, retry_count is 0.
C10_RetryResetOnAssetChange ==
    (/\ last \in {"retriever", "writer", "feedback_processor"}
     /\ state.current_asset # pre.current_asset) => state.retry_count = 0

IsPrefix(p, s) == Len(p) <= Len(s) /\ SubSeq(s, 1, Len(p)) = p

\* C11 (as claimed): reasoning_trace only grows: after every node execution
\* the trace the node started from is a prefix of the trace it left.
C11_TraceOnlyGrows ==
    last # None => IsPrefix(pre.reasoning_trace, state.reasoning_trace)

\* C12 (as claimed): in every state of a started session goal equals the value
\* passed to invoke, so writer and publisher see the user's original goal.
C12_GoalNeverChanges == mode # "idle" => state.goal = Goal0

\* C13: get_state between two calls leaves the state, the pending node and
\* the position of the session as they are and returns exactly them; the call
\* that follows an inspection finds the state the inspection saw (but for
\* what update_state has just written) and, when nothing was written, enters
\* at the node that was pending.
C13_InspectIsReadOnly ==
    [][/\ (view' # NoView /\ view' # view) =>
              /\ state' = state /\ next' = next /\ mode' = mode
              /\ view' = [values |-> state, next |-> next]
       /\ (view # NoView /\ mode = "paused" /\ view' = NoView) =>
              /\ mode' = "running"
              /\ state' = state => (next' = view.next /\ call'.at = view.next)
              /\ call'.from = state'
              /\ \A k \in DOMAIN state \ {"user_feedback", "draft_status"} :
                     state'[k] = view.values[k]
      ]_vars

\* C13 witness: the session was inspected while paused before
\* feedback_processor in a resume call that ran the drafting nodes.
C13_Witness ==
    /\ view # NoView
    /\ mode = "paused" /\ next = "feedback_processor"
    /\ view.values = state /\ view.values.drafts # <<>>
    /\ call.kind = "resume"

\* C14 (as claimed): once the session is at END, a later resume call fails
\* (with SessionComplete), executes no node and leaves the workflow state
\* as it found it.
C14_ResumeAfterEndFails ==
    (call.kind = "resume" /\ call.at = END) =>
        /\ mode = "failed"
        /\ call.ran = <<>>
        /\ state = call.from

\* C15 (as claimed): an invoke with a payload on a session that already has a
\* checkpoint executes no node and leaves the existing state unchanged.
C15_ReInvokeRejected ==
    (call.kind = "invoke" /\ call.from # EmptyState) =>
        (call.ran = <<>> /\ state = call.from)

\* C16 (as claimed): when a node raises during a call, the failure is
\* appended to errors.
C16_FailureRecorded == mode = "failed" => state.errors # <<>>

\* C17 (as claimed): when publishing one asset fails inside publisher, the
\* failure is recorded in errors and every asset whose document was created
\* has its entry in publish_results.
C17_PublishFailureRecorded ==
    (mode = "failed" /\ next = "publisher") =>
        /\ state.errors # <<>>
        /\ \A asset \in docs : Has(state.publish_results, asset)

\* C18: route_after_router sends ChitChat to chitchat, ClarificationNeeded to
\* clarification and every other intent value, None included, to planner;
\* the node after router is the one it names; and a session with one of the
\* two intents never pauses, runs no node but router and chitchat or
\* clarification, and is at END with a critique once its first invoke returns.
C18_RouteAfterRouter ==
    /\ \A intent \in IntentValues :
           route_after_router([EmptyState EXCEPT !.intent = intent]) =
               CASE intent = "ChitChat" -> "chitchat"
                 [] intent = "ClarificationNeeded" -> "clarification"
                 [] OTHER -> "planner"
    /\ Ran("router") =>
           next = CASE state.intent = "ChitChat" -> "chitchat"
                    [] state.intent = "ClarificationNeeded" -> "clarification"
                    [] OTHER -> "planner"
    /\ state.intent \in {"ChitChat", "ClarificationNeeded"} =>
           /\ mode \in {"running", "terminal"}
           /\ IsPrefix(hist, <<"router", IF state.intent = "ChitChat"
                                         THEN "chitchat" ELSE "clarification">>)
           /\ mode = "terminal" => (Len(hist) = 2 /\ state.critique # <<>>)
           /\ mode = "running" => call.kind = "invoke"
           /\ state.plan = <<>> /\ state.drafts = <<>> /\ state.publish_results = <<>>

\* C18 witness: the first invoke of a session that asked for clarification
\* has returned at END.
C18_Witness ==
    /\ state.intent = "ClarificationNeeded"
    /\ mode = "terminal" /\ call.kind = "invoke"
    /\ hist = <<"router", "clarification">>

RECURSIVE DraftingRounds(_)
DraftingRounds(n) ==
    IF n = 0 THEN <<>>
    ELSE <<"retriever", "retrieval_grader", "writer", "hallucination_grader", "pause">>
         \o DraftingRounds(n - 1)

\* the nodes and pauses of a campaign of n assets that is never sent back
HappyOrder(n) ==
    <<"router", "planner", "pause">> \o DraftingRounds(n)
    \o <<"feedback_processor", "reviewer", "pause", "publisher">>

\* a plan of distinct assets (none, before planner has run and when it
\* returns no step), a campaign intent, every grade so far "yes", nothing
\* marked needs_revision and no revision processed
HappyRun ==
    /\ state.intent = "Factual"
    /\ Cardinality(ElemsOf(state.plan)) = Len(state.plan)
    /\ ~Contains(state.reasoning_trace, <<"Retrieval Grade", "no">>)
    /\ ~Contains(state.reasoning_trace, <<"Hallucination Grade", "no">>)
    /\ ~NeedsRevision(state.draft_status)
    /\ state.feedback_iteration = 0

\* C19 (as claimed): in such a run of a plan of n distinct assets, n = 0
\* included, the nodes run in the order router, planner, then retriever,
\* retrieval_grader, writer, hallucination_grader for each asset in plan
\* order, then
\* feedback_processor, reviewer, publisher, END; the calls return exactly
\* before each retriever, before feedback_processor and before publisher;
\* and critique is non-empty once reviewer has run.
C19_HappyPathOrder ==
    HappyRun =>
        /\ IsPrefix(hist, HappyOrder(Len(state.plan)))
        /\ IsPrefix(KeySeq(state.drafts), state.plan)
        /\ mode = "paused" => (hist # <<>> /\ hist[Len(hist)] = "pause")
        /\ mode = "terminal" => (hist = HappyOrder(Len(state.plan)) /\ next = END)
        /\ "reviewer" \in ElemsOf(hist) => state.critique # <<>>

\* what the routing functions and the nodes read of a state: everything but
\* the text of the trace, of which only the two substring tests count
RoutingView(s) ==
    [s EXCEPT !.reasoning_trace =
        <<Contains(s.reasoning_trace, <<"Retrieval Grade", "yes">>),
          Contains(s.reasoning_trace, <<"Hallucination Grade", "no">>)>>]

\* C20 (as claimed, in the form a finite run refutes): while no draft has
\* been marked needs_revision, a resume call never returns paused before the
\* node it started at in the routing view it started from.  Were it to, the
\* same verdicts would repeat the call forever and END would never be reached.
C20_ResumeMakesProgress ==
    (/\ mode = "paused"
     /\ call.kind = "resume" /\ call.ran # <<>>
     /\ state.draft_status = <<>> /\ state.feedback_iteration = 0) =>
        ~(next = call.at /\ RoutingView(state) = RoutingView(call.from))

\* C21 (as claimed): a resume with an external mutation changes only
\* user_feedback and draft_status before execution continues, and execution
\* continues at the pending node stored when the session paused.
C21_MutationKeepsPending ==
    [][(mode = "paused" /\ mode' = "running") =>
           /\ next' = next
           /\ \A k \in DOMAIN state \ {"user_feedback", "draft_status"} :
                  state'[k] = state[k]
      ]_vars

\* the longest path of the graph between two interrupt points: retriever,
\* retrieval_grader, writer, hallucination_grader, query_rewriter
MaxNodesPerCall == 5

\* C24: within one invoke or resume call no node is executed more than once
\* and at most MaxNodesPerCall nodes run; a call that is still running has a
\* node to run and can always take that step, so it pauses or reaches END.
C24_CallRunsEachNodeOnce ==
    /\ \A n \in Nodes : Occurrences(call.ran, n) <= 1
    /\ Len(call.ran) <= MaxNodesPerCall
    /\ (mode = "running" /\ Len(state.reasoning_trace) < MaxTrace) =>
           (next \in Nodes /\ ENABLED Step(next, NoUpdate))

\* a resume that ran a whole drafting round, had the draft rejected and the
\* query rewritten, and paused again before retriever
C24_Witness ==
    /\ mode = "paused"
    /\ next = "retriever"
    /\ call.kind = "resume"
    /\ call.ran = <<"retriever", "retrieval_grader", "writer",
                    "hallucination_grader", "query_rewriter">>

\* C25 (as claimed): when hallucination_grader graded the draft of asset X "no"
\* and routed to query_rewriter, the retriever execution that follows keeps
\* current_asset = X.
C25_RetryKeepsAsset ==
    (/\ Ran("retriever")
     /\ Len(hist) >= 4
     /\ SubSeq(hist, Len(hist) - 3, Len(hist)) =
            <<"hallucination_grader", "query_rewriter", "pause", "retriever">>)
        => state.current_asset = pre.current_asset

\* C26 (as claimed): each execution of publisher is preceded by reviewer, which
\* is preceded by the feedback_processor execution whose routing sent the call
\* on to reviewer because it found no needs_revision status, with no writer
\* execution in between.
C26_PublishAfterCleanFeedback ==
    Ran("publisher") =>
        /\ Len(hist) >= 4
        /\ SubSeq(hist, Len(hist) - 3, Len(hist)) =
               <<"feedback_processor", "reviewer", "pause", "publisher">>
        /\ ~NeedsRevision(state.draft_status)

\* field values a routing function may meet beyond those the nodes produce
RetryValues == 0..2
StatusValues == {"approved", "needs_revision", "pending", None}

\* C27: on every reachable state, and on that state with intent, retry_count
\* or the draft statuses replaced by any value (missing and unexpected ones
\* included), each routing function returns a key of the edge mapping
\* registered for its node; a session that is not Terminal always has a node
\* of the graph pending.
C27_RoutingTotal ==
    /\ \A i \in IntentValues :
           route_after_router([state EXCEPT !.intent = i]) \in RoutingKeys("router")
    /\ \A r \in RetryValues :
           LET s == [state EXCEPT !.retry_count = r]
           IN /\ route_after_retrieval_grade(s) \in RoutingKeys("retrieval_grader")
              /\ route_after_hallucination_grade(s) \in RoutingKeys("hallucination_grader")
    /\ \A v \in StatusValues :
           LET s == [state EXCEPT !.draft_status =
                         [i \in 1..Len(state.drafts) |-> <<state.drafts[i][1], v>>]]
           IN route_after_feedback(s) \in RoutingKeys("feedback_processor")
    /\ route_after_feedback(state) \in RoutingKeys("feedback_processor")
    /\ \A n \in {"router", "retrieval_grader", "hallucination_grader",
                 "feedback_processor"} : RoutingKeys(n) \subseteq Nodes
    /\ mode \in {"running", "paused"} => next \in Nodes
    /\ mode = "terminal" => next = END

\* a conditional edge was followed on the fall-through branch of its routing
\* function: a rejected draft with the retry budget used up
C27_Witness ==
    /\ Ran("hallucination_grader")
    /\ state.intent = "Factual"
    /\ state.retry_count = 1
    /\ Contains(state.reasoning_trace, <<"Hallucination Grade", "no">>)
    /\ next = "feedback_processor"

\* the fields node n may change
WrittenFields(n) ==
    CASE n = "router" -> {"intent", "reasoning_trace"}
      [] n = "planner" -> {"plan", "reasoning_trace"}
      [] n = "retriever" -> {"retrieved_docs", "current_asset", "retry_count"}
      [] n \in {"retrieval_grader", "hallucination_grader"} -> {"reasoning_trace"}
      [] n = "query_rewriter" -> {"goal", "retry_count"}
      [] n = "writer" -> {"drafts", "reasoning_trace"}
      [] n = "feedback_processor" -> {"drafts", "feedback_iteration", "current_asset"}
      [] n = "reviewer" -> {"critique"}
      [] n = "publisher" -> {"publish_results"}
      [] OTHER -> DOMAIN state

\* C28: the state after a node differs from the state before it only in the
\* fields listed for that node; writer leaves current_asset and every drafts
\* entry other than drafts[current_asset] as they were.
C28_NodeFrame ==
    last \in Nodes =>
        /\ \A k \in DOMAIN state \ WrittenFields(last) : state[k] = pre[k]
        /\ Ran("writer") =>
               /\ state.current_asset = pre.current_asset
               /\ \A a \in Keys(pre.drafts) \cup Keys(state.drafts) :
                      a # state.current_asset =>
                          /\ Has(pre.drafts, a) /\ Has(state.drafts, a)
                          /\ Get(state.drafts, a, None) = Get(pre.drafts, a, None)

\* writer added the draft of the second asset next to the draft of the first
C28_Witness ==
    /\ Ran("writer")
    /\ Len(pre.drafts) = 1
    /\ Len(state.drafts) = 2

\* ---- POST /run_campaign (backend.py) ----

\* an API key as a request or the environment can carry it: absent, empty, or
\* one of two keys
KeyValues == {None, "", "key1", "key2"}

\* Python truth of an optional string
Truthy(k) == k \notin {None, ""}

\* a or b
Or(a, b) == IF Truthy(a) THEN a ELSE b

\* create_graph(): a new workflow compiled with a new, empty MemorySaver
CreateGraph ==
    /\ state' = EmptyState
    /\ mode' = "idle"
    /\ next' = EntryPoint
    /\ pre' = EmptyState
    /\ last' = None
    /\ call' = [kind |-> None, at |-> None, ran |-> <<>>, from |-> EmptyState,
              updated |-> FALSE]
    /\ rewrites' = [a \in AssetNames |-> 0]
    /\ hist' = <<>>
    /\ revision' = [a \in AssetNames |-> "none"]
    /\ calls' = <<>>
    /\ view' = NoView
    /\ UNCHANGED docs

\* mutant: the key test sits inside the try block, whose except clause turns
\* every exception, the HTTPException included, into a 500
ApiRequest_AuthInsideTry ==
    /\ api.pc = "idle"
    /\ \E body_key \in KeyValues, header_key \in KeyValues, goal \in Goals :
          LET api_key == Or(Or(body_key, header_key), api.env)
              served == [api EXCEPT !.body_key = body_key, !.header_key = header_key,
                                    !.goal = goal, !.response = NoResponse]
          IN IF ~Truthy(api_key)
             THEN /\ api' = [served EXCEPT !.status = 500]
                  /\ UNCHANGED <<state, mode, next, pre, last, call, rewrites,
                                 hist, revision, calls, docs, view>>
             ELSE /\ api' = [served EXCEPT !.pc = "created", !.env = api_key,
                                           !.status = 0]
                  /\ CreateGraph
    /\ UNCHANGED <<run_stage, after>>
    /\ UNCHANGED <<lib, failures>>

\* run_campaign up to the first graph call: the key is taken from the body,
\* else the header, else the environment; without one the handler raises
\* HTTPException(401) before the try block.  With one it is stored in
\* os.environ and a graph is created.
ApiRequest ==
    /\ api.pc = "idle"
    /\ \E body_key \in KeyValues, header_key \in KeyValues, goal \in Goals :
          LET api_key == Or(Or(body_key, header_key), api.env)
              served == [api EXCEPT !.body_key = body_key, !.header_key = header_key,
                                    !.goal = goal, !.response = NoResponse]
          IN IF ~Truthy(api_key)
             THEN /\ api' = [served EXCEPT !.status = 401]
                  /\ UNCHANGED <<state, mode, next, pre, last, call, rewrites,
                                 hist, revision, calls, docs, view>>
             ELSE /\ api' = [served EXCEPT !.pc = "created", !.env = api_key,
                                           !.status = 0]
                  /\ CreateGraph
    /\ UNCHANGED <<run_stage, after>>
    /\ UNCHANGED <<lib, failures>>

\* initial_state = graph.invoke({"goal": request.goal}, config=config)
ApiFirstInvoke ==
    /\ api.pc = "created"
    /\ InvokeCall(api.goal)
    /\ api' = [api EXCEPT !.pc = "first"]
    /\ UNCHANGED <<run_stage, after>>
    /\ UNCHANGED <<lib, failures>>

\* final_state = graph.invoke(None, config=config), issued as soon as the
\* first call has returned, whether it paused or reached END
ApiSecondInvoke ==
    /\ api.pc = "first"
    /\ ResumeCall \/ ResumeTerminalCall
    /\ api' = [api EXCEPT !.pc = "second"]
    /\ UNCHANGED <<run_stage, after>>
    /\ UNCHANGED <<lib, failures>>

\* return CampaignResponse(...) built from what the second call returned
ApiRespond ==
    /\ api.pc = "second"
    /\ mode \in {"paused", "terminal"}
    /\ api' = [api EXCEPT !.pc = "idle", !.status = 200,
                          !.response = [plan |-> state.plan,
                                        drafts |-> state.drafts,
                                        critique |-> state.critique,
                                        reasoning_trace |-> state.reasoning_trace]]
    /\ UNCHANGED <<state, mode, next, pre, last, call, rewrites, hist, revision, calls, docs, view,
                   run_stage, after>>
    /\ UNCHANGED <<lib, failures>>

\* a node raises during one of the two calls: except Exception turns it into
\* HTTPException(500)
ApiError ==
    /\ api.pc \in {"first", "second"}
    /\ mode = "running"
    /\ next \in Nodes
    /\ mode' = "failed"
    /\ api' = [api EXCEPT !.pc = "idle", !.status = 500]
    /\ UNCHANGED <<state, next, pre, last, call, rewrites, hist, revision, calls, docs, view,
                   run_stage, after>>
    /\ UNCHANGED <<lib, failures>>

\* the server process starts with whatever GOOGLE_API_KEY its environment holds
InitApi ==
    /\ InitSession
    /\ run_stage = "entry"
    /\ after = None
    /\ \E env \in KeyValues : api = [ApiIdle EXCEPT !.env = env, !.start_env = env]
    /\ guard = GuardIdle
    /\ client = ClientNew
    /\ cd = CdIdle
    /\ failures = 0

NextApi ==
    \/ ApiRequest
    \/ ApiFirstInvoke
    \/ ApiSecondInvoke
    \/ ApiRespond
    \/ ApiError
    \/ Router
    \/ Planner
    \/ Retriever
    \/ RetrievalGrader
    \/ QueryRewriter
    \/ Writer
    \/ HallucinationGrader
    \/ ChitChat
    \/ Clarification

SpecApi == InitApi /\ [][NextApi]_vars

\* C22: a request that finds no key in its body, its header or the
\* environment is answered 401 with the session, the environment and the
\* place of the handler left as they were (no graph is created or invoked);
\* a request that finds a key is never answered 401; a 500 is only ever the
\* answer to a request that had a key.
C22_NoKey401 ==
    [][/\ (api.pc = "idle" /\ api' # api) =>
             LET api_key == Or(Or(api'.body_key, api'.header_key), api.env)
             IN IF ~Truthy(api_key)
                THEN /\ api'.status = 401
                     /\ api'.pc = "idle"
                     /\ api'.env = api.env
                     /\ UNCHANGED <<state, mode, next, pre, last, call, rewrites,
                                    hist, revision, calls, docs, view>>
                ELSE /\ api'.status = 0
                     /\ api'.pc = "created"
                     /\ api'.env = api_key
                     /\ mode' = "idle"
       /\ api'.status = 500 =>
             Truthy(Or(Or(api'.body_key, api'.header_key), api'.env))
      ]_vars

\* a request with an empty key in the body and in the header, served by a
\* process whose environment holds no key, was rejected
C22_Witness ==
    /\ api.status = 401
    /\ api.body_key = ""
    /\ api.header_key = ""
    /\ ~Truthy(api.env)
    /\ api.pc = "idle"
    /\ mode = "idle"

\* C23 (as claimed): when POST /run_campaign answers 200 for a goal routed to
\* planner, its two graph calls have run the workflow through reviewer: the
\* critique returned is the reviewer's output and the drafts returned hold a
\* draft for every plan asset.
C23_ApiRunsThroughReviewer ==
    (api.status = 200 /\ api.pc = "idle" /\ route_after_router(state) = "planner") =>
        /\ Contains(hist, "reviewer")
        /\ api.response.critique = reviewer_node(state).critique
        /\ \A i \in 1..Len(api.response.plan) :
               Has(api.response.drafts, api.response.plan[i])

\* ---- the Streamlit app (app.py) ----

\* what the "Google API Key" field of the sidebar can hold
SidebarKeys == {"", "key1"}

\* the sidebar: a non-empty "Google API Key" is stored in os.environ.  The key
\* is read by the entry stage only, so it is entered there.
EnterApiKey ==
    /\ run_stage = "entry"
    /\ after = None
    /\ \E api_key \in SidebarKeys :
          api' = IF Truthy(api_key) THEN [api EXCEPT !.env = api_key] ELSE api
    /\ UNCHANGED <<state, mode, next, pre, last, call, rewrites, hist, revision, calls, docs, view,
                   run_stage, after>>
    /\ UNCHANGED <<lib, failures>>

\* "Start Campaign": needs a key in the environment and a non-empty goal
StartCampaign ==
    /\ run_stage = "entry"
    /\ after = None
    /\ Truthy(api.env)
    /\ \E goal \in Goals \cup {""} :
          /\ Truthy(goal)
          /\ InvokeCall(goal)
    /\ after' = "plan_approval"
    /\ UNCHANGED <<run_stage, api>>
    /\ UNCHANGED <<lib, failures>>

\* the graph call of a button handler has returned: the handler assigns
\* run_stage and calls st.rerun(); the script run that follows renders the new
\* stage, which reads graph.get_state(config)
Rerun ==
    /\ after # None
    /\ mode \in {"paused", "terminal"}
    /\ run_stage' = after
    /\ after' = None
    /\ view' = [values |-> state, next |-> next]
    /\ UNCHANGED <<state, mode, next, pre, last, call, rewrites, hist, revision, calls, docs, api>>
    /\ UNCHANGED <<lib, failures>>

\* "Approve Plan & Start Drafting"
ApprovePlan ==
    /\ run_stage = "plan_approval"
    /\ after = None
    /\ ResumeCall \/ ResumeTerminalCall
    /\ after' = "draft_approval"
    /\ UNCHANGED <<run_stage, api>>
    /\ UNCHANGED <<lib, failures>>

\* "Continue to Detailed Review": no graph call
ContinueToDetailedReview ==
    /\ run_stage = "draft_approval"
    /\ after = None
    /\ run_stage' = "feedback_collection"
    /\ view' = [values |-> state, next |-> next]
    /\ UNCHANGED <<state, mode, next, pre, last, call, rewrites, hist, revision, calls, docs,
                   after, api>>
    /\ UNCHANGED <<lib, failures>>

\* "Submit Feedback & Continue" once every shown draft is reviewed: the stage
\* that follows is chosen from the statuses submitted, not from the session
SubmitFeedbackAndContinue ==
    /\ run_stage = "feedback_collection"
    /\ after = None
    /\ UpdateStateAndResume
    /\ after' = IF NeedsRevision(state'.draft_status)
                THEN "feedback_collection" ELSE "review_approval"
    /\ UNCHANGED <<run_stage, api>>
    /\ UNCHANGED <<lib, failures>>

\* "Approve & Publish to Google Workspace"
ApprovePublish ==
    /\ run_stage = "review_approval"
    /\ after = None
    /\ ResumeCall \/ ResumeTerminalCall
    /\ after' = "complete"
    /\ UNCHANGED <<run_stage, api>>
    /\ UNCHANGED <<lib, failures>>

\* "Start New Campaign": st.session_state.graph = create_graph()
StartNewCampaign ==
    /\ run_stage = "complete"
    /\ after = None
    /\ CreateGraph
    /\ run_stage' = "entry"
    /\ UNCHANGED <<after, api>>
    /\ UNCHANGED <<lib, failures>>

NextApp ==
    \/ EnterApiKey
    \/ StartCampaign
    \/ Rerun
    \/ ApprovePlan
    \/ ContinueToDetailedReview
    \/ SubmitFeedbackAndContinue
    \/ ApprovePublish
    \/ StartNewCampaign
    \/ Router
    \/ Planner
    \/ Retriever
    \/ RetrievalGrader
    \/ QueryRewriter
    \/ Writer
    \/ HallucinationGrader
    \/ FeedbackProcessor
    \/ Reviewer
    \/ Publisher
    \/ ChitChat
    \/ Clarification

SpecApp == Init /\ [][NextApp]_vars

\* C29 (as claimed): whenever run_stage is "complete" the session is Terminal,
\* publisher has executed and publish_results holds an entry per draft.
C29_CompleteMeansPublished ==
    run_stage = "complete" =>
        /\ mode = "terminal"
        /\ Contains(hist, "publisher")
        /\ Keys(state.publish_results) = Keys(state.drafts)

\* C30 (as claimed): whenever the feedback_collection stage waits for a button,
\* the session is paused before feedback_processor with a draft for every plan
\* asset; this includes the re-entry of the stage after a revision request.
C30_FeedbackStageBeforeProcessor ==
    (run_stage = "feedback_collection" /\ after = None) =>
        /\ mode = "paused"
        /\ next = "feedback_processor"
        /\ \A i \in 1..Len(state.plan) : Has(state.drafts, state.plan[i])

\* ---- revision requests ----

\* C31 (as claimed): each revision request causes at most one regeneration: a
\* draft that feedback_processor removed and writer then rewrote is not removed
\* by a later feedback_processor execution unless the caller has marked it
\* needs_revision again since the rewrite.
C31_OneRegenerationPerRequest ==
    [][\A a \in AssetNames :
          (mode = "running" /\ next = "feedback_processor"
              /\ Has(state.drafts, a) /\ ~Has(state'.drafts, a)) =>
                 revision[a] # "rewritten"
      ]_vars

\* C32: in every reachable state of a session started with invoke({goal}),
\* retry_count is 0 or 1; query_rewriter is only entered when retry_count < 1,
\* it adds one, and no other node increases retry_count.
C32_RetryCountBounded ==
    /\ state.retry_count \in {0, 1}
    /\ last = "query_rewriter" =>
           (pre.retry_count < 1 /\ state.retry_count = pre.retry_count + 1)
    /\ last \in Nodes \ {"query_rewriter"} => state.retry_count <= pre.retry_count

\* query_rewriter has just run for the one retry, and a retrieval graded "no"
\* after it went on to writer
C32_Witness ==
    /\ state.retry_count = 1
    /\ Contains(hist, "query_rewriter")
    /\ last = "writer"
    /\ pre.retry_count = 1
    /\ ~Contains(state.reasoning_trace, <<"Retrieval Grade", "yes">>)

\* ---- publishing ----

\* C33 (as claimed): when publisher completes without raising, the keys of
\* publish_results are the keys of drafts, create_doc and add_calendar_event
\* were each called once per draft in the iteration order of drafts, and
\* across the whole session each draft is published at most once.
C33_PublishedOncePerDraft ==
    Ran("publisher") =>
        LET made == PublisherCalls(pre.drafts)
        IN /\ KeySeq(state.publish_results) = KeySeq(pre.drafts)
           /\ Len(calls) >= Len(made)
           /\ SubSeq(calls, Len(calls) - Len(made) + 1, Len(calls)) = made
           /\ \A i \in 1..Len(pre.drafts) :
                  /\ Occurrences(made, <<"create_doc", pre.drafts[i][1]>>) = 1
                  /\ Occurrences(made, <<"add_calendar_event", pre.drafts[i][1]>>) = 1
           /\ \A a \in AssetNames : Occurrences(calls, <<"create_doc", a>>) <= 1

\* ---- the key a request runs with ----

\* C35 (as claimed): whether a POST /run_campaign request is authorised
\* depends only on its body, its header and the environment the server was
\* started with, and the key an accepted request runs with is the first of
\* these that is set: a key supplied by an earlier request is never used for
\* a later request that supplies none.
C35_AuthIndependentOfEarlierRequests ==
    [][(api.pc = "idle" /\ (api'.pc = "created" \/ (api'.status = 401 /\ api' # api))) =>
          LET own == Or(Or(api'.body_key, api'.header_key), api.start_env)
          IN /\ api'.status = 401 <=> ~Truthy(own)
             /\ api'.pc = "created" => api'.env = own
      ]_vars

\* ---- the Guardrails block of writer_node ----
Applied == "(Guardrails applied fixes)"
CheckFailed == "(Guardrails check failed)"

\* the model returns a completion for the asset being written
Completion ==
    /\ guard.pc = "idle"
    /\ \E raw_content \in Texts :
          guard' = [pc |-> "completion", raw_content |-> raw_content,
                    draft |-> <<>>, note |-> ""]
    /\ UNCHANGED <<state, mode, next, pre, last, call, rewrites, hist, revision,
                   calls, docs, view, run_stage, after, api, failures, client, cd>>

\* the try block: the validated output is committed, and the trace segment
\* notes a fix when it differs from the completion
GuardChecks ==
    /\ guard.pc = "completion"
    /\ LET validated_content == validated_output(guard.raw_content)
       IN guard' = [guard EXCEPT
                       !.pc = "committed",
                       !.draft = validated_content,
                       !.note = IF validated_content # guard.raw_content
                                THEN Applied ELSE ""]
    /\ UNCHANGED <<state, mode, next, pre, last, call, rewrites, hist, revision,
                   calls, docs, view, run_stage, after, api, failures, client, cd>>

\* the except block: the guard raised, the completion is committed as it is
GuardRaises ==
    /\ guard.pc = "completion"
    /\ guard' = [guard EXCEPT !.pc = "committed", !.draft = guard.raw_content,
                              !.note = CheckFailed]
    /\ UNCHANGED <<state, mode, next, pre, last, call, rewrites, hist, revision,
                   calls, docs, view, run_stage, after, api, failures, client, cd>>

\* the next asset is written
NextDraft ==
    /\ guard.pc = "committed"
    /\ guard' = GuardIdle
    /\ UNCHANGED <<state, mode, next, pre, last, call, rewrites, hist, revision,
                   calls, docs, view, run_stage, after, api, failures, client, cd>>

NextGuard ==
    \/ Completion
    \/ GuardChecks
    \/ GuardRaises
    \/ NextDraft

SpecGuard == Init /\ [][NextGuard]_vars

\* C34 (as claimed): a draft committed after the guard ran without raising
\* contains none of the configured competitor names in any letter case, and the
\* trace notes "(Guardrails applied fixes)" exactly when the committed text
\* differs from the completion.
C34_CommittedDraftIsClean ==
    (guard.pc = "committed" /\ guard.note # CheckFailed) =>
        /\ \A i \in 1..Len(competitors) :
               ~In(Lower(competitors[i]), LowerText(guard.draft))
        /\ guard.note = Applied <=> guard.draft # guard.raw_content

\* ---- MCPClient ----
\* what subprocess.Popen does
PopenOutcomes == {"ok", "raises"}

\* what the server does with a request: it answers with a result that names
\* the document, with a result that has no "id", with a result that is not a
\* dict, with an empty or missing result, with an error, or the write, the
\* read or the parse raises
Responses == {"result", "no_id", "not_dict", "empty", "error", "raises"}

\* what terminate(), wait(timeout=5) and kill() do: the first two return; one
\* of them raises and kill() ends the process; or kill() raises as well and
\* the process goes on running
StopOutcomes == {"ok", "killed", "kill_raises"}

start_server(c, popen) ==
    IF c.is_running
    THEN [c EXCEPT !.ret = "True", !.op = "start_server"]
    ELSE IF popen = "ok"
    THEN [c EXCEPT !.process = c.spawned + 1, !.spawned = @ + 1,
                   !.alive = @ \cup {c.spawned + 1}, !.is_running = TRUE,
                   !.ret = "True", !.op = "start_server"]
    ELSE [c EXCEPT !.ret = "False", !.op = "start_server"]

\* the values call_tool returns that are false in a condition
Falsy == {None, "empty"}

call_tool(c, response) ==
    IF ~c.is_running \/ c.process = 0
    THEN [c EXCEPT !.ret = None, !.op = "call_tool"]
    ELSE [c EXCEPT !.written = @ + 1,
                   !.ret = IF response \in {"error", "raises"} THEN None
                           ELSE response,
                   !.op = "call_tool"]

\* create_file, then write_file when there is content; a failed write is only
\* logged.  The tuple is (id, webViewLink) of the create_file result: "doc"
\* when it names the document, "no_id" for (None, None).
create_google_doc(c, content, create_file, write_file) ==
    LET created == call_tool(c, create_file)
        written == IF content # "" THEN call_tool(created, write_file) ELSE created
    IN IF created.ret \in Falsy \/ created.ret = "not_dict"
       THEN [created EXCEPT !.ret = None, !.op = "create_google_doc"]
       ELSE [written EXCEPT !.ret = IF created.ret = "result" THEN "doc" ELSE "no_id",
                            !.op = "create_google_doc"]

\* mutant: the fields are reset after the try, not in a finally
stop_server_no_finally(c, outcome) ==
    IF c.process # 0 /\ c.is_running
    THEN IF outcome = "ok"
         THEN [c EXCEPT !.alive = @ \ {c.process}, !.is_running = FALSE,
                        !.process = 0, !.ret = None, !.op = "stop_server"]
         ELSE [c EXCEPT !.alive = IF outcome = "kill_raises" THEN @
                                  ELSE @ \ {c.process},
                        !.ret = None, !.op = "stop_server"]
    ELSE [c EXCEPT !.ret = None, !.op = "stop_server"]

\* terminate and wait, kill when either raises, with whatever kill raises
\* swallowed, and in every case the finally block: the fields are reset also
\* when neither signal has ended the process
stop_server(c, outcome) ==
    IF c.process # 0 /\ c.is_running
    THEN [c EXCEPT !.alive = IF outcome = "kill_raises" THEN @ ELSE @ \ {c.process},
                   !.is_running = FALSE,
                   !.process = 0, !.ret = None, !.op = "stop_server"]
    ELSE [c EXCEPT !.ret = None, !.op = "stop_server"]

\* ---- any sequence of calls on one client ----
StartServer ==
    /\ client.is_running \/ client.spawned < MaxProcesses
    /\ \E popen \in PopenOutcomes : client' = start_server(client, popen)
    /\ UNCHANGED <<state, mode, next, pre, last, call, rewrites, hist, revision,
                   calls, docs, view, run_stage, after, api, failures, guard, cd>>

CallTool ==
    /\ client.written < MaxRequests
    /\ \E response \in Responses : client' = call_tool(client, response)
    /\ UNCHANGED <<state, mode, next, pre, last, call, rewrites, hist, revision,
                   calls, docs, view, run_stage, after, api, failures, guard, cd>>

CreateGoogleDoc ==
    /\ client.written + 2 <= MaxRequests
    /\ \E content \in {"", "text"}, create_file \in Responses, write_file \in Responses :
          client' = create_google_doc(client, content, create_file, write_file)
    /\ UNCHANGED <<state, mode, next, pre, last, call, rewrites, hist, revision,
                   calls, docs, view, run_stage, after, api, failures, guard, cd>>

StopServer ==
    /\ \E outcome \in StopOutcomes : client' = stop_server(client, outcome)
    /\ UNCHANGED <<state, mode, next, pre, last, call, rewrites, hist, revision,
                   calls, docs, view, run_stage, after, api, failures, guard, cd>>

NextClient ==
    \/ StartServer
    \/ CallTool
    \/ CreateGoogleDoc
    \/ StopServer

SpecClient == Init /\ [][NextClient]_vars

\* C36: after any sequence of start_server, call_tool, create_google_doc and
\* stop_server calls, is_running is true only if process is not None;
\* start_server on a running client returns True without spawning a second
\* process; stop_server always ends with is_running false and process None,
\* also when terminate or wait raises; and call_tool on a client that is not
\* running returns None without writing to any process.
C36_ClientLifecycle ==
    [][/\ client'.is_running => client'.process # 0
       /\ (client' # client /\ client'.op = "start_server" /\ client.is_running) =>
              (client'.ret = "True" /\ client'.spawned = client.spawned
                  /\ client'.alive = client.alive
                  /\ client'.process = client.process)
       /\ (client' # client /\ client'.op = "stop_server") =>
              (~client'.is_running /\ client'.process = 0)
       /\ (client' # client /\ client'.op = "call_tool" /\ ~client.is_running) =>
              (client'.ret = None /\ client'.written = client.written)
      ]_vars

\* a client that was started, has written a request and has been stopped by
\* a stop_server in which terminate and kill both raised: the fields are reset
\* and the process it had started is still running
C36_Witness ==
    /\ client.op = "stop_server"
    /\ client.spawned = 1
    /\ client.written > 0
    /\ ~client.is_running /\ client.process = 0
    /\ client.alive = {1}

\* ---- create_doc ----
\* what load_mcp_config and get_gdrive_client find: no readable file, a file
\* without a gdrive server, a gdrive server, or a file they cannot work with
Configs == {"missing", "no_gdrive", "gdrive", "raises"}

\* what get_google_service finds: no credentials at all, credentials the API
\* accepts, or credentials with which a request raises
Credentials == {"none", "valid", "failing"}

MockDoc == "mock_doc_id"
ApiDoc == "api_doc"

\* create_doc touches neither the session nor the front ends
CdFrame ==
    UNCHANGED <<state, mode, next, pre, last, call, rewrites, hist, revision,
                calls, docs, view, run_stage, after, api, failures, guard>>

\* create_doc(title, content, use_mcp) is called
CdCall ==
    /\ cd.pc = "idle"
    /\ client.spawned < MaxProcesses
    /\ \E use_mcp \in BOOLEAN, content \in {"", "text"}, config \in Configs,
          credentials \in Credentials :
          cd' = [CdIdle EXCEPT !.pc = IF use_mcp THEN "mcp" ELSE "api",
                               !.use_mcp = use_mcp, !.content = content,
                               !.config = config, !.credentials = credentials]
    /\ UNCHANGED client
    /\ CdFrame

\* mcp_client = get_gdrive_client(): a new client, None, or an exception,
\* which the except clause of create_doc turns into the fallback
CdGetClient ==
    /\ cd.pc = "mcp"
    /\ IF cd.config = "gdrive"
       THEN /\ client' = [ClientNew EXCEPT !.spawned = client.spawned,
                                           !.alive = client.alive,
                                           !.written = client.written]
            /\ cd' = [cd EXCEPT !.pc = "client"]
       ELSE /\ cd' = [cd EXCEPT !.pc = "api"]
            /\ UNCHANGED client
    /\ CdFrame

\* if mcp_client.start_server():
CdStartServer ==
    /\ cd.pc = "client"
    /\ \E popen \in PopenOutcomes :
          /\ client' = start_server(client, popen)
          /\ cd' = [cd EXCEPT !.popen = popen,
                              !.pc = IF client'.ret = "True" THEN "started" ELSE "api"]
    /\ CdFrame

\* result = mcp_client.create_google_doc(title, content)
CdCreateGoogleDoc ==
    /\ cd.pc = "started"
    /\ \E create_file \in Responses, write_file \in Responses :
          /\ client' = create_google_doc(client, cd.content, create_file, write_file)
          /\ cd' = [cd EXCEPT !.create_file = create_file, !.result = client'.ret,
                              !.pc = "created"]
    /\ CdFrame

\* mcp_client.stop_server(), then "if result: return result", else on to the
\* fallback
CdStopServer ==
    /\ cd.pc = "created"
    /\ \E outcome \in StopOutcomes : client' = stop_server(client, outcome)
    /\ cd' = IF cd.result # None
             THEN [cd EXCEPT !.pc = "returned", !.value = cd.result]
             ELSE [cd EXCEPT !.pc = "api"]
    /\ CdFrame

\* the fallback: get_google_service('docs', 'v1') is None without credentials
\* and the mock pair is returned; else the document is created through the
\* API, whose exceptions leave create_doc
CdGoogleApi ==
    /\ cd.pc = "api"
    /\ cd' = CASE cd.credentials = "none" ->
                      [cd EXCEPT !.pc = "returned", !.value = MockDoc]
               [] cd.credentials = "valid" ->
                      [cd EXCEPT !.pc = "returned", !.value = ApiDoc]
               [] OTHER -> [cd EXCEPT !.pc = "raised"]
    /\ UNCHANGED client
    /\ CdFrame

\* the caller goes on to its next call
CdNext ==
    /\ cd.pc \in {"returned", "raised"}
    /\ cd' = CdIdle
    /\ UNCHANGED client
    /\ CdFrame

NextCreateDoc ==
    \/ CdCall
    \/ CdGetClient
    \/ CdStartServer
    \/ CdCreateGoogleDoc
    \/ CdStopServer
    \/ CdGoogleApi
    \/ CdNext

SpecCreateDoc == Init /\ [][NextCreateDoc]_vars

\* the MCP path of the call in progress produced a document: MCP was asked
\* for, a gdrive server is configured, it started, and it answered create_file
\* with a result that names the document
McpProduced ==
    /\ cd.use_mcp
    /\ cd.config = "gdrive"
    /\ cd.popen = "ok"
    /\ cd.create_file = "result"

\* C37 (as claimed): create_doc falls back to the direct Google API whenever the MCP path
\* yields no document (no config, no client, the server fails to start, the
\* tool call fails or raises); without Google credentials it then returns the
\* mock pair and does not raise; and it returns the MCP result only when MCP
\* produced a document.
C37_FallbackChain ==
    /\ cd.pc = "api" => ~McpProduced
    /\ cd.pc = "returned" =>
           cd.value = IF McpProduced THEN "doc"
                      ELSE IF cd.credentials = "none" THEN MockDoc ELSE ApiDoc
    /\ cd.pc = "raised" => (~McpProduced /\ cd.credentials = "failing")

\* C38 (as claimed): every server process create_doc starts is stopped
\* before create_doc returns or falls back to the Google API: once the MCP
\* block is left, the client has been stopped and no server process is
\* running.
C38_ServerStoppedBeforeReturn ==
    cd.pc \in {"idle", "api", "returned", "raised"} =>
        (client.alive = {} /\ ~client.is_running /\ client.process = 0)

====
